---- MODULE Spec2Model ----
(***************************************************************************)
(* uniswap-v2-helper: getSwapParams and swapTokens.                        *)
(*                                                                         *)
(* Two variants of the module are modelled side by side:                   *)
(*   "js"  src/src/index.js  separate inputAmount / outputAmount fields    *)
(*   "ts"  src/src/index.ts  amount + exactInput flag, and the richer      *)
(*                           result (expectedAmount, expectedSlippage)     *)
(*                                                                         *)
(* A flow is one call of getSwapParams or swapTokens.  Every await on the  *)
(* chain client, in getSwapParams as in swapTokens, is one step of the     *)
(* flow: the call is answered from the chain as it is at that step, and    *)
(* the synchronous code up to the next await runs with it.  The chain      *)
(* (block timestamp, decimals, pool, balances, allowances) is shared by    *)
(* the flows.  Every chain-client call may fail.  parseUnits is the one of  *)
(* the ethers release installed: "early" (5.0) or "late" (5.7).            *)
(***************************************************************************)
EXTENDS Integers, Sequences, FiniteSets, TLC

VARIABLES
    args,           \* flow -> the arguments the caller passed
    ethersRelease,  \* the ethers release the build resolved
    chain,          \* read-only chain state: timestamp, decimals, pool, quote
    balance,        \* token -> the signer's balance
    allowance,      \* token -> the signer's allowance to the router
    pc,             \* flow -> position in the call
    outcome,        \* flow -> how the call ended
    loc,            \* flow -> the locals of getSwapParams read so far
    params,         \* flow -> what getSwapParams returned
    calls,          \* flow -> chain-client calls issued so far, in order
    seenBalance,    \* flow -> `balance` local of swapTokens (-1: not read yet)
    seenAllowance   \* flow -> `allowance` local of swapTokens (-1: not read yet)

vars == <<args, ethersRelease, chain, balance, allowance, pc, outcome, loc, params, calls,
          seenBalance, seenAllowance>>

----------------------------------------------------------------------------
(* Program constants *)

BPS == 10000
DefaultMaxSlippage == 100
DefaultMaxDelay == 120

(* Bounds of the model *)

MaxWhole == 2
MaxDecimals == 1
MaxTimestamp == 50
MaxExpected == 1000
MaxReserve == 2000
MidAmount == 10
MaxBalance == 3000

Flows == {1, 2}
Tokens == {"A", "B"}
OutputTokenAddress == "OUT"
UniswapRouterAddress == "router"

Undefined == [defined |-> FALSE, whole |-> 0, frac |-> <<>>]
Amt(w, fr) == [defined |-> TRUE, whole |-> w, frac |-> fr]
Amounts == {Amt(1, <<>>), Amt(1, <<0>>), Amt(MaxWhole, <<5>>)}

EthersReleases == {"early", "late"}

Slippages == {0, DefaultMaxSlippage, BPS}
Delays == {0, DefaultMaxDelay}
Decimals == {0, MaxDecimals}
Timestamps == {1, MaxTimestamp}
ExpectedAmounts == {1, MaxExpected}
Reserves == {0, MaxReserve}
BalanceValues == {0, MidAmount, MaxBalance}

----------------------------------------------------------------------------
(* Values *)

\* an ethers BigNumber local that may still be `undefined`
BN(v) == [def |-> TRUE, v |-> v]
UndefinedBN == [def |-> FALSE, v |-> 0]

Call(m) == [m |-> m, spender |-> "", amount |-> 0]
WriteCall(m, spender, amount) == [m |-> m, spender |-> spender, amount |-> amount]

NoParams ==
    [amountIn |-> 0, amountOut |-> 0, richer |-> FALSE, expectedAmount |-> 0,
     expectedSlippage |-> [num |-> 0, den |-> 1],
     path |-> <<>>, deadline |-> 0]

\* the locals of getSwapParams before any read
NoLocals ==
    [pairExists |-> FALSE, inputDecimals |-> 0, outputDecimals |-> 0,
     inputAmount |-> UndefinedBN, outputAmount |-> UndefinedBN,
     currentTimestamp |-> 0, expectedAmount |-> 0,
     inputIs0 |-> FALSE, reserve0 |-> 0, reserve1 |-> 0]

RECURSIVE Pow10(_)
Pow10(n) == IF n = 0 THEN 1 ELSE 10 * Pow10(n - 1)

RECURSIVE DigitsValue(_)
DigitsValue(s) ==
    IF s = <<>> THEN 0
    ELSE DigitsValue(SubSeq(s, 1, Len(s) - 1)) * 10 + s[Len(s)]

\* late releases of parseUnits trim the trailing zeros of the fraction first
RECURSIVE StripTrailingZeros(_)
StripTrailingZeros(fr) ==
    IF fr # <<>> /\ fr[Len(fr)] = 0
    THEN StripTrailingZeros(SubSeq(fr, 1, Len(fr) - 1))
    ELSE fr

\* ethers.utils.parseUnits(value, decimals): the smallest-unit integer, or a
\* throw.  An early release hands the string to BigNumber.from when decimals
\* is 0 (a string with a point is no BigNumber) and compares the fraction as
\* written with the decimals; a late release trims the fraction's trailing
\* zeros and then compares.
ParseUnits(release, s, decimals) ==
    LET fraction == IF release = "early" THEN s.frac
                    ELSE StripTrailingZeros(s.frac)
    IN  IF release = "early" /\ decimals = 0
        THEN IF s.frac = <<>>
             THEN [ok |-> TRUE, v |-> s.whole, err |-> ""]
             ELSE [ok |-> FALSE, v |-> 0, err |-> "invalid BigNumber string"]
        ELSE IF Len(fraction) > decimals
        THEN [ok |-> FALSE, v |-> 0,
              err |-> "fractional component exceeds decimals"]
        ELSE [ok |-> TRUE,
              v |-> s.whole * Pow10(decimals)
                    + DigitsValue(fraction) * Pow10(decimals - Len(fraction)),
              err |-> ""]

\* BigNumber.div: truncates toward zero
BnDiv(a, b) == IF a >= 0 THEN a \div b ELSE -((-a) \div b)

----------------------------------------------------------------------------
(* How a call can end *)

Ok == "ok"
InvalidIntent == "must only specify inputAmount or outputAmount"
InsufficientBalanceError == "insufficient balance"
ChainClientFailure == "chain client failure"
ParseError == "fractional component exceeds decimals"
InvalidBigNumberString == "invalid BigNumber string"
TypeError == "Cannot read properties of undefined (reading 'getNetwork')"
UnsupportedNetwork == "unsupported getDefaultProvider network"
InvalidBigNumber == "invalid BigNumber value"
DivisionByZero == "division by zero"
Running == "running"

----------------------------------------------------------------------------
(* The exchange: the router quotes a pair only when the pair exists and    *)
(* both reserves are non-zero; otherwise the read reverts.                 *)

PoolAvailable(ch) == ch.pairExists /\ ch.reserve0 > 0 /\ ch.reserve1 > 0

RouterQuote(ch) ==
    IF PoolAvailable(ch)
    THEN [ok |-> TRUE, v |-> ch.quote]
    ELSE [ok |-> FALSE, v |-> 0]

----------------------------------------------------------------------------
(* getSwapParams *)


\* the check left out, as in index.ts
BothAmountsSetMut(a) == FALSE

\* "make sure only one exact amount"
BothAmountsSet(a) == a.inputAmount.defined /\ a.outputAmount.defined


\* maxDelay forgotten
DeadlineMut(currentTimestamp, maxDelay) == currentTimestamp

\* "set deadline"
Deadline(currentTimestamp, maxDelay) == currentTimestamp + maxDelay

\* "set safety amount": BigNumber.from(maxSlippage).div(10000) is an integer
\* division, done before the subtraction from / addition to 1
SafetyAmount(expectedAmount, maxSlippage, exactInput) ==
    IF exactInput
    THEN expectedAmount * (1 - BnDiv(maxSlippage, BPS))
    ELSE expectedAmount * (1 + BnDiv(maxSlippage, BPS))

\* `inputAmount ? ... : ...` (js), `exactInput ? ... : ...` (ts)
ExactInput(a) == IF a.variant = "js" THEN a.inputAmount.defined ELSE a.exactInput

\* index.js, `const params = {...}`, from the locals read
JsParams(a, l) ==
    LET safetyAmount == SafetyAmount(l.expectedAmount, a.maxSlippage,
                                     l.inputAmount.def)
    IN  [amountIn |-> IF l.inputAmount.def THEN l.inputAmount.v ELSE safetyAmount,
         amountOut |-> IF l.inputAmount.def THEN safetyAmount ELSE l.outputAmount.v,
         richer |-> FALSE,
         expectedAmount |-> 0,
         expectedSlippage |-> [num |-> 0, den |-> 1],
         path |-> <<a.token, OutputTokenAddress>>,
         deadline |-> Deadline(l.currentTimestamp, a.maxDelay)]

\* index.ts, "get quotes": the reserves after the hypothetical trade; both
\* arms of `if (exactInput)` are the same code.  BigNumber.add(undefined)
\* throws.
ReservesPost(exactInput, inputIs0, reserve0, reserve1, inputAmount, expectedAmount) ==
    IF exactInput
    THEN IF ~inputAmount.def
         THEN [ok |-> FALSE, r0 |-> 0, r1 |-> 0]
         ELSE [ok |-> TRUE,
               r0 |-> IF inputIs0 THEN reserve0 + inputAmount.v
                      ELSE reserve0 - expectedAmount,
               r1 |-> IF inputIs0 THEN reserve1 - expectedAmount
                      ELSE reserve1 + inputAmount.v]
    ELSE IF ~inputAmount.def
         THEN [ok |-> FALSE, r0 |-> 0, r1 |-> 0]
         ELSE [ok |-> TRUE,
               r0 |-> IF inputIs0 THEN reserve0 + inputAmount.v
                      ELSE reserve0 - expectedAmount,
               r1 |-> IF inputIs0 THEN reserve1 - expectedAmount
                      ELSE reserve1 + inputAmount.v]

\* outputPerInputQuote: inputUnit * (output reserve) / (input reserve)
OutputPerInputQuote(inputIs0, inputUnit, reserve0, reserve1) ==
    IF inputIs0
    THEN IF reserve0 = 0 THEN [ok |-> FALSE, v |-> 0]
         ELSE [ok |-> TRUE, v |-> BnDiv(inputUnit * reserve1, reserve0)]
    ELSE IF reserve1 = 0 THEN [ok |-> FALSE, v |-> 0]
         ELSE [ok |-> TRUE, v |-> BnDiv(inputUnit * reserve0, reserve1)]

\* (post - pre) / pre * 100 as the exact ratio; formatUnits scales both
\* quotes by the same power of ten
ExpectedSlippage(pre, post) == [num |-> (post - pre) * 100, den |-> pre]

\* index.ts, `const params = {...}`, from the locals read and the two quotes
TsParams(a, l, pre, post) ==
    LET safetyAmount == SafetyAmount(l.expectedAmount, a.maxSlippage, a.exactInput)
    IN  [amountIn |-> IF a.exactInput THEN l.inputAmount.v ELSE safetyAmount,
         amountOut |-> IF a.exactInput THEN safetyAmount ELSE l.outputAmount.v,
         richer |-> TRUE,
         expectedAmount |-> l.expectedAmount,
         expectedSlippage |-> ExpectedSlippage(pre, post),
         path |-> <<a.token, OutputTokenAddress>>,
         deadline |-> Deadline(l.currentTimestamp, a.maxDelay)]

\* the first await of getSwapParams
FirstRead(a) ==
    IF a.variant = "ts" THEN "factory"
    ELSE IF a.inputAmount.defined THEN "inputDecimals"
    ELSE IF a.outputAmount.defined THEN "outputDecimals"
    ELSE "getBlock"

----------------------------------------------------------------------------
(* swapTokens *)


\* operands of lt swapped
InsufficientBalanceMut(bal, amountIn) == amountIn < bal

\* "check sufficient balance": balance.lt(amountIn)
InsufficientBalance(bal, amountIn) == bal < amountIn


\* lte for lt
NeedsApprovalMut(allow, amountIn) == allow <= amountIn

\* "check sufficient allowance": allowance.lt(amountIn)
NeedsApproval(allow, amountIn) == allow < amountIn

\* InputToken.approve(UniswapRouter.address, amountIn)
ApproveCall(amountIn) == WriteCall("approve", UniswapRouterAddress, amountIn)

\* "perform swap"
SwapCall(a, p) ==
    IF ExactInput(a)
    THEN WriteCall("swapExactTokensForTokens", "", p.amountIn)
    ELSE WriteCall("swapTokensForExactTokens", "", p.amountIn)


\* the approval branch left out
AfterAllowanceMut(allow, amountIn) == "swap"

\* where swapTokens goes once the allowance has been read
AfterAllowance(allow, amountIn) ==
    IF NeedsApproval(allow, amountIn) THEN "approve" ELSE "swap"


\* the approval's wait() not awaited
AfterApproveSubmittedMut == "swap"

\* where swapTokens goes once the approval has been submitted
AfterApproveSubmitted == "approvePending"

\* what the mined swap takes from the signer: the exact input, or the input
\* the pool requires for the exact output
Spent(a, p, ch) == IF ExactInput(a) THEN p.amountIn ELSE ch.quote

Finish(f, kind) ==
    /\ pc' = [pc EXCEPT ![f] = "done"]
    /\ outcome' = [outcome EXCEPT ![f] = kind]

Issue(f, c) == calls' = [calls EXCEPT ![f] = Append(@, c)]

\* getSwapParams throws
GspThrow(f, kind) ==
    /\ Finish(f, kind)
    /\ UNCHANGED params

\* getSwapParams returns, to its caller or into swapTokens
GspReturn(f, p) ==
    /\ params' = [params EXCEPT ![f] = p]
    /\ IF args[f].op = "swapTokens"
       THEN /\ pc' = [pc EXCEPT ![f] = "balanceAddress"]
            /\ UNCHANGED outcome
       ELSE Finish(f, Ok)

\* getSwapParams goes on to its next await
GspGoto(f, label) ==
    /\ pc' = [pc EXCEPT ![f] = label]
    /\ UNCHANGED <<outcome, params>>

\* the call is made: the check of the two amounts (js), and in swapTokens
\* the await of getNetwork; getSwapParams then runs up to its first await.
\* A signer without a provider: index.js reads getNetwork of undefined;
\* index.ts skips the request (`provider?.`) and passes the network name ''
\* on, which getDefaultProvider may refuse.
Enter(f) ==
    /\ pc[f] = "start"
    /\ IF args[f].variant = "js" /\ BothAmountsSet(args[f])
       THEN /\ Finish(f, InvalidIntent)
            /\ UNCHANGED calls
       ELSE IF args[f].op = "getSwapParams"
       THEN /\ pc' = [pc EXCEPT ![f] = FirstRead(args[f])]
            /\ UNCHANGED <<outcome, calls>>
       ELSE IF args[f].hasProvider
       THEN /\ Issue(f, Call("getNetwork"))
            /\ \E ok \in BOOLEAN :
                 IF ok
                 THEN /\ pc' = [pc EXCEPT ![f] = FirstRead(args[f])]
                      /\ UNCHANGED outcome
                 ELSE Finish(f, ChainClientFailure)
       ELSE IF args[f].variant = "js"
       THEN /\ Finish(f, TypeError)
            /\ UNCHANGED calls
       ELSE /\ UNCHANGED calls
            /\ \E supported \in BOOLEAN :
                 IF supported
                 THEN /\ pc' = [pc EXCEPT ![f] = FirstRead(args[f])]
                      /\ UNCHANGED outcome
                 ELSE Finish(f, UnsupportedNetwork)
    /\ UNCHANGED <<args, ethersRelease, chain, balance, allowance, loc, params,
                   seenBalance, seenAllowance>>

\* await UniswapRouter.factory()
ReadFactory(f) ==
    /\ pc[f] = "factory"
    /\ Issue(f, Call("factory"))
    /\ \E ok \in BOOLEAN :
         IF ok THEN GspGoto(f, "getPair")
         ELSE GspThrow(f, ChainClientFailure)
    /\ UNCHANGED <<args, ethersRelease, chain, balance, allowance, loc, seenBalance, seenAllowance>>

\* await Factory.getPair(...): the zero address when there is no pair
ReadGetPair(f) ==
    /\ pc[f] = "getPair"
    /\ Issue(f, Call("getPair"))
    /\ \E ok \in BOOLEAN :
         IF ok
         THEN /\ loc' = [loc EXCEPT ![f].pairExists = chain.pairExists]
              /\ GspGoto(f, "inputDecimals")
         ELSE /\ GspThrow(f, ChainClientFailure)
              /\ UNCHANGED loc
    /\ UNCHANGED <<args, ethersRelease, chain, balance, allowance, seenBalance, seenAllowance>>

\* await InputToken.decimals(); index.js parses inputAmount with it
ReadInputDecimals(f) ==
    /\ pc[f] = "inputDecimals"
    /\ Issue(f, Call("decimals"))
    /\ \E ok \in BOOLEAN :
         LET a == args[f]
             parsed == ParseUnits(ethersRelease, a.inputAmount, chain.inputDecimals)
         IN  IF ~ok
             THEN /\ GspThrow(f, ChainClientFailure)
                  /\ UNCHANGED loc
             ELSE IF a.variant = "ts"
             THEN /\ loc' = [loc EXCEPT ![f].inputDecimals = chain.inputDecimals]
                  /\ GspGoto(f, "outputDecimals")
             ELSE IF ~parsed.ok
             THEN /\ GspThrow(f, parsed.err)
                  /\ UNCHANGED loc
             ELSE /\ loc' = [loc EXCEPT ![f].inputDecimals = chain.inputDecimals,
                                        ![f].inputAmount = BN(parsed.v)]
                  /\ GspGoto(f, IF a.outputAmount.defined THEN "outputDecimals"
                                ELSE "getBlock")
    /\ UNCHANGED <<args, ethersRelease, chain, balance, allowance, seenBalance, seenAllowance>>

\* await OutputToken.decimals(); index.js parses outputAmount with it,
\* index.ts parses amount ("format amount")
ReadOutputDecimals(f) ==
    /\ pc[f] = "outputDecimals"
    /\ Issue(f, Call("decimals"))
    /\ \E ok \in BOOLEAN :
         LET a == args[f]
             parsed == IF a.variant = "js"
                       THEN ParseUnits(ethersRelease, a.outputAmount, chain.outputDecimals)
                       ELSE ParseUnits(ethersRelease, a.amount,
                                       IF a.exactInput THEN loc[f].inputDecimals
                                       ELSE chain.outputDecimals)
         IN  IF ~ok
             THEN /\ GspThrow(f, ChainClientFailure)
                  /\ UNCHANGED loc
             ELSE IF ~parsed.ok
             THEN /\ GspThrow(f, parsed.err)
                  /\ UNCHANGED loc
             ELSE /\ loc' = [loc EXCEPT
                               ![f].outputDecimals = chain.outputDecimals,
                               ![f].inputAmount =
                                   IF a.variant = "js" THEN @
                                   ELSE IF a.exactInput THEN BN(parsed.v)
                                   ELSE UndefinedBN,
                               ![f].outputAmount =
                                   IF a.variant = "js" \/ ~a.exactInput
                                   THEN BN(parsed.v) ELSE UndefinedBN]
                  /\ GspGoto(f, "getBlock")
    /\ UNCHANGED <<args, ethersRelease, chain, balance, allowance, seenBalance, seenAllowance>>

\* await provider.getBlock(); the quote call that follows cannot be encoded
\* when index.js was given neither amount
ReadBlock(f) ==
    /\ pc[f] = "getBlock"
    /\ Issue(f, Call("getBlock"))
    /\ \E ok \in BOOLEAN :
         IF ~ok
         THEN /\ GspThrow(f, ChainClientFailure)
              /\ UNCHANGED loc
         ELSE IF ~loc[f].inputAmount.def /\ ~loc[f].outputAmount.def
         THEN /\ GspThrow(f, InvalidBigNumber)
              /\ UNCHANGED loc
         ELSE /\ loc' = [loc EXCEPT ![f].currentTimestamp = chain.timestamp]
              /\ GspGoto(f, "quote")
    /\ UNCHANGED <<args, ethersRelease, chain, balance, allowance, seenBalance, seenAllowance>>

\* await UniswapRouter.getAmountsOut / getAmountsIn; index.js returns here
ReadQuote(f) ==
    /\ pc[f] = "quote"
    /\ Issue(f, Call(IF ExactInput(args[f]) THEN "getAmountsOut" ELSE "getAmountsIn"))
    /\ \E ok \in BOOLEAN :
         LET quote == RouterQuote(chain)
             l == [loc[f] EXCEPT !.expectedAmount = quote.v]
         IN  IF ~ok \/ ~quote.ok
             THEN /\ GspThrow(f, ChainClientFailure)
                  /\ UNCHANGED loc
             ELSE /\ loc' = [loc EXCEPT ![f] = l]
                  /\ IF args[f].variant = "js"
                     THEN GspReturn(f, JsParams(args[f], l))
                     ELSE GspGoto(f, "token0")
    /\ UNCHANGED <<args, ethersRelease, chain, balance, allowance, seenBalance, seenAllowance>>

\* await Pair.token0(): no contract answers at the zero address
ReadToken0(f) ==
    /\ pc[f] = "token0"
    /\ Issue(f, Call("token0"))
    /\ \E ok \in BOOLEAN :
         IF ok /\ loc[f].pairExists
         THEN /\ loc' = [loc EXCEPT ![f].inputIs0 = chain.token0IsInput]
              /\ GspGoto(f, "getReserves")
         ELSE /\ GspThrow(f, ChainClientFailure)
              /\ UNCHANGED loc
    /\ UNCHANGED <<args, ethersRelease, chain, balance, allowance, seenBalance, seenAllowance>>

\* await Pair.getReserves()
ReadReserves(f) ==
    /\ pc[f] = "getReserves"
    /\ Issue(f, Call("getReserves"))
    /\ \E ok \in BOOLEAN :
         IF ok
         THEN /\ loc' = [loc EXCEPT ![f].reserve0 = chain.reserve0,
                                    ![f].reserve1 = chain.reserve1]
              /\ GspGoto(f, "inputUnit")
         ELSE /\ GspThrow(f, ChainClientFailure)
              /\ UNCHANGED loc
    /\ UNCHANGED <<args, ethersRelease, chain, balance, allowance, seenBalance, seenAllowance>>

\* await InputToken.decimals() for inputUnit, then "get quotes" to the return
ReadInputUnit(f) ==
    /\ pc[f] = "inputUnit"
    /\ Issue(f, Call("decimals"))
    /\ \E ok \in BOOLEAN :
         LET a == args[f]
             l == loc[f]
             inputUnit == Pow10(chain.inputDecimals)
             pre == OutputPerInputQuote(l.inputIs0, inputUnit, l.reserve0, l.reserve1)
             rp == ReservesPost(a.exactInput, l.inputIs0, l.reserve0, l.reserve1,
                                l.inputAmount, l.expectedAmount)
             post == OutputPerInputQuote(l.inputIs0, inputUnit, rp.r0, rp.r1)
         IN  IF ~ok THEN GspThrow(f, ChainClientFailure)
             ELSE IF ~pre.ok THEN GspThrow(f, DivisionByZero)
             ELSE IF ~rp.ok THEN GspThrow(f, InvalidBigNumber)
             ELSE IF ~post.ok THEN GspThrow(f, DivisionByZero)
             ELSE GspReturn(f, TsParams(a, l, pre.v, post.v))
    /\ UNCHANGED <<args, ethersRelease, chain, balance, allowance, loc, seenBalance, seenAllowance>>

\* await ethersSigner.getAddress(), the argument of balanceOf: no request
\* to the chain, and it can reject
GetAddressForBalance(f) ==
    /\ pc[f] = "balanceAddress"
    /\ \E ok \in BOOLEAN :
         IF ok
         THEN /\ pc' = [pc EXCEPT ![f] = "balance"]
              /\ UNCHANGED outcome
         ELSE Finish(f, ChainClientFailure)
    /\ UNCHANGED <<args, ethersRelease, chain, loc, balance, allowance, params,
                   calls, seenBalance, seenAllowance>>

\* await ethersSigner.getAddress(), the argument of allowance
GetAddressForAllowance(f) ==
    /\ pc[f] = "allowanceAddress"
    /\ \E ok \in BOOLEAN :
         IF ok
         THEN /\ pc' = [pc EXCEPT ![f] = "allowance"]
              /\ UNCHANGED outcome
         ELSE Finish(f, ChainClientFailure)
    /\ UNCHANGED <<args, ethersRelease, chain, loc, balance, allowance, params,
                   calls, seenBalance, seenAllowance>>

\* "check sufficient balance": await InputToken.balanceOf(...)
CheckBalance(f) ==
    /\ pc[f] = "balance"
    /\ Issue(f, Call("balanceOf"))
    /\ \E ok \in BOOLEAN :
         IF ok
         THEN /\ seenBalance' = [seenBalance EXCEPT ![f] = balance[args[f].token]]
              /\ IF InsufficientBalance(balance[args[f].token], params[f].amountIn)
                 THEN Finish(f, InsufficientBalanceError)
                 ELSE /\ pc' = [pc EXCEPT ![f] = "allowanceAddress"]
                      /\ UNCHANGED outcome
         ELSE /\ Finish(f, ChainClientFailure)
              /\ UNCHANGED seenBalance
    /\ UNCHANGED <<args, ethersRelease, chain, loc, balance, allowance, params, seenAllowance>>

\* "check sufficient allowance": the read and the comparison
CheckAllowance(f) ==
    /\ pc[f] = "allowance"
    /\ Issue(f, Call("allowance"))
    /\ \E ok \in BOOLEAN :
         IF ok
         THEN /\ seenAllowance' = [seenAllowance EXCEPT ![f] = allowance[args[f].token]]
              /\ pc' = [pc EXCEPT ![f] =
                          AfterAllowance(allowance[args[f].token], params[f].amountIn)]
              /\ UNCHANGED outcome
         ELSE /\ Finish(f, ChainClientFailure)
              /\ UNCHANGED seenAllowance
    /\ UNCHANGED <<args, ethersRelease, chain, loc, balance, allowance, params, seenBalance>>

\* await InputToken.approve(...)
SubmitApprove(f) ==
    /\ pc[f] = "approve"
    /\ Issue(f, ApproveCall(params[f].amountIn))
    /\ \E ok \in BOOLEAN :
         IF ok
         THEN /\ pc' = [pc EXCEPT ![f] = AfterApproveSubmitted]
              /\ UNCHANGED outcome
         ELSE Finish(f, ChainClientFailure)
    /\ UNCHANGED <<args, ethersRelease, chain, loc, balance, allowance, params, seenBalance,
                   seenAllowance>>

\* await (...).wait() of the approval: mined, the allowance is overwritten
ConfirmApprove(f) ==
    /\ pc[f] = "approvePending"
    /\ \E ok \in BOOLEAN :
         IF ok
         THEN /\ allowance' = [allowance EXCEPT ![args[f].token] = params[f].amountIn]
              /\ Issue(f, Call("approve.wait"))
              /\ pc' = [pc EXCEPT ![f] = "swap"]
              /\ UNCHANGED outcome
         ELSE /\ Finish(f, ChainClientFailure)
              /\ UNCHANGED <<allowance, calls>>
    /\ UNCHANGED <<args, ethersRelease, chain, loc, balance, params, seenBalance, seenAllowance>>

\* await UniswapRouter.swapExactTokensForTokens / swapTokensForExactTokens
SubmitSwap(f) ==
    /\ pc[f] = "swap"
    /\ Issue(f, SwapCall(args[f], params[f]))
    /\ \E ok \in BOOLEAN :
         IF ok
         THEN /\ pc' = [pc EXCEPT ![f] = "swapPending"]
              /\ UNCHANGED outcome
         ELSE Finish(f, ChainClientFailure)
    /\ UNCHANGED <<args, ethersRelease, chain, loc, balance, allowance, params, seenBalance,
                   seenAllowance>>

\* await (...).wait() of the swap: mined, or reverted when the balance or the
\* allowance no longer covers it
ConfirmSwap(f) ==
    /\ pc[f] = "swapPending"
    /\ \E ok \in BOOLEAN :
         LET t == args[f].token
             spent == Spent(args[f], params[f], chain)
         IN  IF ok /\ balance[t] >= spent /\ allowance[t] >= spent
             THEN /\ balance' = [balance EXCEPT ![t] = @ - spent]
                  /\ allowance' = [allowance EXCEPT ![t] = @ - spent]
                  /\ Issue(f, Call("swap.wait"))
                  /\ Finish(f, Ok)
             ELSE /\ Finish(f, ChainClientFailure)
                  /\ UNCHANGED <<balance, allowance, calls>>
    /\ UNCHANGED <<args, ethersRelease, chain, loc, params, seenBalance, seenAllowance>>

Step(f) ==
    \/ Enter(f)
    \/ ReadFactory(f)
    \/ ReadGetPair(f)
    \/ ReadInputDecimals(f)
    \/ ReadOutputDecimals(f)
    \/ ReadBlock(f)
    \/ ReadQuote(f)
    \/ ReadToken0(f)
    \/ ReadReserves(f)
    \/ ReadInputUnit(f)
    \/ GetAddressForBalance(f)
    \/ CheckBalance(f)
    \/ GetAddressForAllowance(f)
    \/ CheckAllowance(f)
    \/ SubmitApprove(f)
    \/ ConfirmApprove(f)
    \/ SubmitSwap(f)
    \/ ConfirmSwap(f)

Next == \E f \in Flows : Step(f)

----------------------------------------------------------------------------
(* Initial states *)

Variants == {"js", "ts"}
Ops == {"getSwapParams", "swapTokens"}

\* getSwapParams takes no signer
SignerOk(a) == a.op = "getSwapParams" => a.hasProvider

JsArgs ==
    [variant : {"js"}, op : Ops, hasProvider : BOOLEAN, token : {"A"},
     inputAmount : Amounts \cup {Undefined},
     outputAmount : Amounts \cup {Undefined},
     amount : {Undefined}, exactInput : {FALSE},
     maxSlippage : Slippages, maxDelay : Delays]

TsArgs ==
    [variant : {"ts"}, op : Ops, hasProvider : BOOLEAN, token : {"A"},
     inputAmount : {Undefined}, outputAmount : {Undefined},
     amount : Amounts, exactInput : BOOLEAN,
     maxSlippage : Slippages, maxDelay : Delays]

IdleArgs ==
    [variant |-> "ts", op |-> "getSwapParams", hasProvider |-> TRUE, token |-> "B",
     inputAmount |-> Undefined, outputAmount |-> Undefined,
     amount |-> Undefined, exactInput |-> FALSE,
     maxSlippage |-> DefaultMaxSlippage, maxDelay |-> DefaultMaxDelay]

\* the chains a call can meet: a missing pair has no reserves, and an
\* unavailable pool has no quote
ChainStates ==
    {ch \in [timestamp : Timestamps, inputDecimals : Decimals,
             outputDecimals : Decimals, pairExists : BOOLEAN,
             token0IsInput : BOOLEAN, reserve0 : Reserves, reserve1 : Reserves,
             quote : ExpectedAmounts \cup {0}] :
        /\ ~ch.pairExists => ch.reserve0 = 0 /\ ch.reserve1 = 0 /\ ch.token0IsInput
        /\ PoolAvailable(ch) <=> ch.quote # 0}

TypeInitCommon ==
    /\ outcome = [f \in Flows |-> Running]
    /\ loc = [f \in Flows |-> NoLocals]
    /\ params = [f \in Flows |-> NoParams]
    /\ calls = [f \in Flows |-> <<>>]
    /\ seenBalance = [f \in Flows |-> -1]
    /\ seenAllowance = [f \in Flows |-> -1]

\* one call, any arguments, any chain
Init ==
    /\ \E a \in {x \in JsArgs \cup TsArgs : SignerOk(x)} :
         args = [f \in Flows |-> IF f = 1 THEN a ELSE IdleArgs]
    /\ ethersRelease \in EthersReleases
    /\ pc = [f \in Flows |-> IF f = 1 THEN "start" ELSE "idle"]
    /\ chain \in ChainStates
    /\ \E b \in BalanceValues, al \in BalanceValues :
         /\ args[1].op = "getSwapParams" => b = 0 /\ al = 0
         /\ balance = [t \in Tokens |-> IF t = "A" THEN b ELSE 0]
         /\ allowance = [t \in Tokens |-> IF t = "A" THEN al ELSE 0]
    /\ TypeInitCommon

Spec == Init /\ [][Next]_vars

\* two concurrent swapTokens calls of one signer, on the same or on different
\* input tokens, against a healthy pool
ConcArgs ==
    [variant : {"ts"}, op : {"swapTokens"}, hasProvider : {TRUE}, token : Tokens,
     inputAmount : {Undefined}, outputAmount : {Undefined},
     amount : Amounts, exactInput : {TRUE},
     maxSlippage : {DefaultMaxSlippage}, maxDelay : {DefaultMaxDelay}]

ConcChain ==
    [timestamp |-> 1, inputDecimals |-> MaxDecimals, outputDecimals |-> MaxDecimals,
     pairExists |-> TRUE, token0IsInput |-> TRUE,
     reserve0 |-> MaxReserve, reserve1 |-> MaxReserve, quote |-> MaxExpected]

InitConc ==
    /\ args \in [Flows -> ConcArgs]
    /\ ethersRelease = "late"
    /\ pc = [f \in Flows |-> "start"]
    /\ chain = ConcChain
    /\ balance = [t \in Tokens |-> MaxBalance]
    /\ allowance \in [Tokens -> BalanceValues]
    /\ TypeInitCommon

SpecConc == InitConc /\ [][Next]_vars

----------------------------------------------------------------------------
(* Properties *)

SwapMethods == {"swapExactTokensForTokens", "swapTokensForExactTokens"}
WriteMethods == SwapMethods \cup {"approve"}

Indices(log, methods) == {i \in DOMAIN log : log[i].m \in methods}

HasReturnedParams(f) == params[f].path # <<>>
BalanceRead(f) == seenBalance[f] >= 0
AllowanceRead(f) == seenAllowance[f] >= 0

\* the amount string the caller fixed, parsed at the decimals its call read
ParsedExact(f) ==
    LET a == args[f]
    IN  IF a.variant = "js"
        THEN IF a.inputAmount.defined
             THEN ParseUnits(ethersRelease, a.inputAmount, loc[f].inputDecimals).v
             ELSE ParseUnits(ethersRelease, a.outputAmount, loc[f].outputDecimals).v
        ELSE ParseUnits(ethersRelease, a.amount, IF a.exactInput THEN loc[f].inputDecimals
                                  ELSE loc[f].outputDecimals).v

Abs(x) == IF x < 0 THEN -x ELSE x

\* C1: once swapTokens has read a balance below the amountIn that
\* getSwapParams returned, the call has ended in 'insufficient balance' and
\* has issued no approve and no swap.
C1_InsufficientBalanceNoWrites ==
    \A f \in Flows :
        (BalanceRead(f) /\ seenBalance[f] < params[f].amountIn)
        => /\ pc[f] = "done"
           /\ outcome[f] = InsufficientBalanceError
           /\ Indices(calls[f], WriteMethods) = {}

C1_Witness ==
    \E f \in Flows :
        /\ BalanceRead(f) /\ seenBalance[f] > 0
        /\ seenBalance[f] < params[f].amountIn
        /\ ~ExactInput(args[f])
        /\ outcome[f] = InsufficientBalanceError

\* C2: with a sufficient balance and an allowance read below amountIn, the
\* call submits one approve, for amountIn and to the router, and submits the
\* swap only after the approval's wait() has returned; no approval
\* confirmation, no swap.
C2_ApproveOnceBeforeSwap ==
    \A f \in Flows :
        (/\ BalanceRead(f) /\ seenBalance[f] >= params[f].amountIn
         /\ AllowanceRead(f) /\ seenAllowance[f] < params[f].amountIn)
        => LET log == calls[f]
               approves == Indices(log, {"approve"})
               confirms == Indices(log, {"approve.wait"})
               swaps == Indices(log, SwapMethods)
           IN  /\ Cardinality(approves) = (IF pc[f] = "approve" THEN 0 ELSE 1)
               /\ \A i \in approves :
                    /\ log[i].spender = UniswapRouterAddress
                    /\ log[i].amount = params[f].amountIn
               /\ \A i \in swaps :
                    \E j \in confirms : \E k \in approves : k < j /\ j < i
               /\ Cardinality(swaps) <= 1

C2_Witness ==
    \E f \in Flows :
        /\ BalanceRead(f) /\ seenBalance[f] >= params[f].amountIn
        /\ AllowanceRead(f) /\ seenAllowance[f] < params[f].amountIn
        /\ Indices(calls[f], SwapMethods) # {}
        /\ pc[f] = "done" /\ outcome[f] = Ok

\* C3: with an allowance read that already covers amountIn the call issues
\* no approve, and its only chain write is the one swap submission.
C3_NoApproveWhenAllowed ==
    \A f \in Flows :
        (AllowanceRead(f) /\ seenAllowance[f] >= params[f].amountIn)
        => /\ Indices(calls[f], {"approve"}) = {}
           /\ Cardinality(Indices(calls[f], WriteMethods))
                = (IF pc[f] = "swap" THEN 0 ELSE 1)
           /\ Indices(calls[f], WriteMethods) = Indices(calls[f], SwapMethods)

C3_Witness ==
    \E f \in Flows :
        /\ AllowanceRead(f) /\ seenAllowance[f] >= params[f].amountIn
        /\ Cardinality(Indices(calls[f], SwapMethods)) = 1
        /\ pc[f] = "done" /\ outcome[f] = Ok

\* C4: for an exact-input intent getSwapParams returns amountIn = the parsed
\* amount and amountOut <= expectedAmount, short of it by
\* expectedAmount * maxSlippage / 10000 up to integer truncation.
C4_ExactInputShortfall ==
    \A f \in Flows :
        (HasReturnedParams(f) /\ ExactInput(args[f]))
        => /\ params[f].amountIn = ParsedExact(f)
           /\ params[f].amountOut <= loc[f].expectedAmount
           /\ Abs((loc[f].expectedAmount - params[f].amountOut)
                  - (loc[f].expectedAmount * args[f].maxSlippage) \div BPS) <= 1

\* C5: for an exact-output intent getSwapParams returns amountOut = the
\* parsed amount and amountIn >= expectedAmount, above it by
\* expectedAmount * maxSlippage / 10000 up to integer truncation.
C5_ExactOutputExcess ==
    \A f \in Flows :
        (HasReturnedParams(f) /\ ~ExactInput(args[f]))
        => /\ params[f].amountOut = ParsedExact(f)
           /\ params[f].amountIn >= loc[f].expectedAmount
           /\ Abs((params[f].amountIn - loc[f].expectedAmount)
                  - (loc[f].expectedAmount * args[f].maxSlippage) \div BPS) <= 1

\* C6: in index.js a call with both inputAmount and outputAmount set issues
\* no chain call at all and ends in the invalid-intent error.
C6_BothAmountsRejectedFirst ==
    \A f \in Flows :
        (/\ args[f].variant = "js"
         /\ args[f].inputAmount.defined /\ args[f].outputAmount.defined)
        => /\ calls[f] = <<>>
           /\ pc[f] \in {"start", "done"}
           /\ pc[f] = "done" => outcome[f] = InvalidIntent

C6_Witness ==
    \E f \in Flows :
        /\ args[f].variant = "js" /\ args[f].op = "swapTokens"
        /\ args[f].inputAmount.defined /\ args[f].outputAmount.defined
        /\ pc[f] = "done" /\ outcome[f] = InvalidIntent /\ calls[f] = <<>>

\* C7: when the pair is missing or a reserve is zero, a getSwapParams that
\* got as far as the quote ends in the PoolUnavailable error and returns no
\* params.
PoolUnavailableError == "PoolUnavailable"

C7_PoolUnavailable ==
    \A f \in Flows :
        (/\ ~PoolAvailable(chain)
         /\ Indices(calls[f], {"getAmountsOut", "getAmountsIn"}) # {}
         /\ pc[f] = "done")
        => /\ outcome[f] = PoolUnavailableError
           /\ ~HasReturnedParams(f)

\* C8 as claimed: every params returned has deadline = block timestamp +
\* maxDelay, and deadline > block timestamp, whatever maxDelay is.
C8_DeadlineStrictlyFuture ==
    \A f \in Flows :
        HasReturnedParams(f)
        => /\ params[f].deadline = loc[f].currentTimestamp + args[f].maxDelay
           /\ params[f].deadline > loc[f].currentTimestamp

\* C8 amended: every params returned has deadline = block timestamp +
\* maxDelay; deadline > block timestamp whenever maxDelay > 0, and deadline =
\* block timestamp when maxDelay = 0.
C8_DeadlineIsTimestampPlusDelay ==
    \A f \in Flows :
        HasReturnedParams(f)
        => /\ params[f].deadline = loc[f].currentTimestamp + args[f].maxDelay
           /\ args[f].maxDelay > 0 => params[f].deadline > loc[f].currentTimestamp
           /\ args[f].maxDelay = 0 => params[f].deadline = loc[f].currentTimestamp

C8_Witness ==
    \E f \in Flows :
        /\ HasReturnedParams(f)
        /\ args[f].maxDelay = DefaultMaxDelay
        /\ params[f].deadline = loc[f].currentTimestamp + DefaultMaxDelay

\* C9: in index.ts an exact-output getSwapParams on an available pool, with
\* a representable amount and a working chain client, returns params, and
\* the post-trade reserves are the reserves with the getAmountsIn result
\* added on the input token's slot and the exact output taken from the
\* output token's slot.
C9_ExactOutputCompletes ==
    \A f \in Flows :
        (/\ args[f].variant = "ts" /\ ~args[f].exactInput
         /\ args[f].op = "getSwapParams"
         /\ PoolAvailable(chain)
         /\ pc[f] = "done"
         /\ outcome[f] \notin {ChainClientFailure, ParseError, InvalidBigNumberString})
        => LET rp == ReservesPost(FALSE, loc[f].inputIs0, loc[f].reserve0,
                                  loc[f].reserve1, loc[f].inputAmount,
                                  loc[f].expectedAmount)
               in0 == loc[f].inputIs0
           IN  /\ outcome[f] = Ok
               /\ HasReturnedParams(f)
               /\ rp.ok
               /\ rp.r0 = (IF in0 THEN loc[f].reserve0 + loc[f].expectedAmount
                           ELSE loc[f].reserve0 - ParsedExact(f))
               /\ rp.r1 = (IF in0 THEN loc[f].reserve1 - ParsedExact(f)
                           ELSE loc[f].reserve1 + loc[f].expectedAmount)

OthersOnToken(f) == {g \in Flows \ {f} : args[g].token = args[f].token}

\* C10 as claimed: whenever a flow submits its swap, the allowance on the
\* chain covers that flow's amountIn, whatever the other flows do.
C10_AllowanceHoldsAtSubmit ==
    [][\A f \in Flows :
          (pc[f] = "swap" /\ pc'[f] # "swap")
          => allowance[args[f].token] >= params[f].amountIn]_vars

\* C10 amended: whenever a flow submits its swap and no other flow uses the
\* same signer and input token, the allowance on the chain covers that
\* flow's amountIn.
C10_AllowanceHoldsAtSubmitAlone ==
    [][\A f \in Flows :
          (pc[f] = "swap" /\ pc'[f] # "swap" /\ OthersOnToken(f) = {})
          => allowance[args[f].token] >= params[f].amountIn]_vars

C10_Witness ==
    /\ args[1].token # args[2].token
    /\ \A f \in Flows : Indices(calls[f], SwapMethods) # {}
    /\ Indices(calls[1], {"approve"}) # {}
    /\ pc[1] = "swapPending" /\ pc[2] = "swapPending"

====
